---- MODULE Spec2Model ----
(***************************************************************************)
(* Model of the pure functions of activelearn-hub-tcc: gamification (XP /  *)
(* level arithmetic), the nudge lookup table, the project progress         *)
(* calculator and the CBL field / resource / activity validators.          *)
(*                                                                         *)
(* The program keeps no state between calls.  The state of the model is    *)
(* the call in progress: the function called (op), its arguments (args)    *)
(* and what the call produced (ret); the caller then discards the values   *)
(* (Discard) and may call again.  Every JavaScript value is a record       *)
(* [kind, val]; a call that throws produces a value of kind "throw".       *)
(***************************************************************************)
EXTENDS Integers, Sequences, FiniteSets

VARIABLES op, args, ret

vars == <<op, args, ret>>

(***************************************************************************)
(* Bounds of the model.                                                    *)
(***************************************************************************)
\* totalXP ranges over -MaxXP..MaxXP
MaxXP == 1100
\* Math.random() is drawn from {0/R, 1/R, .., (R-1)/R} with R = RandomResolution
RandomResolution == 7
\* a text is up to MaxPad blanks, up to MaxBody characters, up to MaxPad blanks
MaxBody == 16
MaxPad == 1
\* a title is up to MaxTitle characters between its blanks
MaxTitle == 4
\* a list of activities is any list of up to MaxSmallList activities, or a
\* list of MaxActivities - 2 .. MaxActivities activities of which up to
\* MaxOpen, the first or the last ones, are not completed
\* a walk through the phases makes up to MaxCalls calls of getNextPhase
MaxCalls == 5
MaxSmallList == 4
MaxActivities == 200
MaxOpen == 2

(***************************************************************************)
(* JavaScript values.                                                      *)
(***************************************************************************)
Num(n) == [kind |-> "number", val |-> n]
Bool(b) == [kind |-> "boolean", val |-> b]
Str(s) == [kind |-> "string", val |-> s]
Arr(a) == [kind |-> "array", val |-> a]
Fun(n) == [kind |-> "function", val |-> n]
Obj == [kind |-> "object", val |-> 0]
JSNull == [kind |-> "null", val |-> 0]
JSUndefined == [kind |-> "undefined", val |-> 0]
Throw(e) == [kind |-> "throw", val |-> e]

IsNullish(v) == v.kind \in {"null", "undefined"}

\* Math.round(num / den * 100) for den > 0: the nearest integer, a half
\* going up (towards +Infinity).  \div rounds down, also below zero.
\* With the denominators of the program (100, 150, 250, 500 and 3) and
\* integer numerators the quotient is never at a half, and the double
\* computed by the code is within 1e-12 of it, so the code's rounding and
\* the exact one agree.  With a list length as denominator a quotient at a
\* half k + 1/2 is a double, and the code computes exactly it (the error of
\* the division, at most 2^-53 relative, is below half the spacing of the
\* doubles at k + 1/2); a quotient not at a half is at least 1 / (2 * den)
\* away from one.
MathRoundPercent(num, den) == (200 * num + den) \div (2 * den)

(***************************************************************************)
(* Gamification.                                                           *)
(***************************************************************************)
XP_PER_LEVEL == <<0, 100, 250, 500, 1000>>

\* the loop of calculateUserLevel, i being the 0-based index of the code
RECURSIVE M_calculateUserLevelFrom(_, _)
M_calculateUserLevelFrom(totalXP, i) ==
    IF i < 0 THEN 1
    ELSE IF totalXP > XP_PER_LEVEL[i + 1] THEN i + 1
    ELSE M_calculateUserLevelFrom(totalXP, i - 1)

\* a slip that turns the comparison around
RECURSIVE M_calculateUserLevelFrom_AtMost(_, _)
M_calculateUserLevelFrom_AtMost(totalXP, i) ==
    IF i < 0 THEN 1
    ELSE IF totalXP <= XP_PER_LEVEL[i + 1] THEN i + 1
    ELSE M_calculateUserLevelFrom_AtMost(totalXP, i - 1)

RECURSIVE calculateUserLevelFrom(_, _)
calculateUserLevelFrom(totalXP, i) ==
    IF i < 0 THEN 1
    ELSE IF totalXP >= XP_PER_LEVEL[i + 1] THEN i + 1
    ELSE calculateUserLevelFrom(totalXP, i - 1)

calculateUserLevel(totalXP) ==
    calculateUserLevelFrom(totalXP, Len(XP_PER_LEVEL) - 1)

\* a slip that takes level 4 for the last level
M_xpToNextLevel_MaxLevel(totalXP) ==
    LET currentLevel == calculateUserLevel(totalXP) IN
    IF currentLevel >= 4 THEN 0
    ELSE LET nextLevelXP == XP_PER_LEVEL[currentLevel + 1] IN
         nextLevelXP - totalXP

\* a slip that reads the floor of the current level
M_xpToNextLevel(totalXP) ==
    LET currentLevel == calculateUserLevel(totalXP) IN
    IF currentLevel >= 5 THEN 0
    ELSE XP_PER_LEVEL[currentLevel] - totalXP

xpToNextLevel(totalXP) ==
    LET currentLevel == calculateUserLevel(totalXP) IN
    IF currentLevel >= 5 THEN 0
    ELSE LET nextLevelXP == XP_PER_LEVEL[currentLevel + 1] IN
         nextLevelXP - totalXP

\* a slip that does not take the floor of the level off the XP
M_levelProgressPercentage_NoFloor(totalXP) ==
    LET currentLevel == calculateUserLevel(totalXP) IN
    IF currentLevel >= 5 THEN 100
    ELSE LET currentLevelXP == XP_PER_LEVEL[currentLevel]
             nextLevelXP == XP_PER_LEVEL[currentLevel + 1]
             xpNeededForLevel == nextLevelXP - currentLevelXP
         IN MathRoundPercent(totalXP, xpNeededForLevel)

\* a slip that cuts the percentage off instead of rounding it
M_levelProgressPercentage(totalXP) ==
    LET currentLevel == calculateUserLevel(totalXP) IN
    IF currentLevel >= 5 THEN 100
    ELSE LET currentLevelXP == XP_PER_LEVEL[currentLevel]
             nextLevelXP == XP_PER_LEVEL[currentLevel + 1]
             xpInCurrentLevel == totalXP - currentLevelXP
             xpNeededForLevel == nextLevelXP - currentLevelXP
         IN (100 * xpInCurrentLevel) \div xpNeededForLevel

levelProgressPercentage(totalXP) ==
    LET currentLevel == calculateUserLevel(totalXP) IN
    IF currentLevel >= 5 THEN 100
    ELSE LET currentLevelXP == XP_PER_LEVEL[currentLevel]
             nextLevelXP == XP_PER_LEVEL[currentLevel + 1]
             xpInCurrentLevel == totalXP - currentLevelXP
             xpNeededForLevel == nextLevelXP - currentLevelXP
         IN MathRoundPercent(xpInCurrentLevel, xpNeededForLevel)

XPs == (0 - MaxXP)..MaxXP

CallCalculateUserLevel ==
    /\ op = "none"
    /\ \E totalXP \in XPs :
        /\ op' = "calculateUserLevel"
        /\ args' = [totalXP |-> totalXP]
        /\ ret' = Num(calculateUserLevel(totalXP))

CallXpToNextLevel ==
    /\ op = "none"
    /\ \E totalXP \in XPs :
        /\ op' = "xpToNextLevel"
        /\ args' = [totalXP |-> totalXP]
        /\ ret' = Num(xpToNextLevel(totalXP))

CallLevelProgressPercentage ==
    /\ op = "none"
    /\ \E totalXP \in XPs :
        /\ op' = "levelProgressPercentage"
        /\ args' = [totalXP |-> totalXP]
        /\ ret' = Num(levelProgressPercentage(totalXP))

(***************************************************************************)
(* Project progress calculator.                                            *)
(***************************************************************************)
ProjectPhase == {"engage", "investigate", "act"}

ProjectProgress ==
    [phase : ProjectPhase, engageComplete : BOOLEAN,
     investigateComplete : BOOLEAN, actComplete : BOOLEAN]

countCompletedPhases(project) ==
    LET count0 == 0
        count1 == IF project.engageComplete THEN count0 + 1 ELSE count0
        count2 == IF project.investigateComplete THEN count1 + 1 ELSE count1
        count3 == IF project.actComplete THEN count2 + 1 ELSE count2
    IN count3

\* a slip that reads engageComplete twice
M_calculateProjectProgress(project) ==
    LET c0 == 0
        c1 == IF project.engageComplete THEN c0 + 1 ELSE c0
        c2 == IF project.engageComplete THEN c1 + 1 ELSE c1
        c3 == IF project.actComplete THEN c2 + 1 ELSE c2
    IN MathRoundPercent(c3, 3)

calculateProjectProgress(project) ==
    LET c0 == 0
        c1 == IF project.engageComplete THEN c0 + 1 ELSE c0
        c2 == IF project.investigateComplete THEN c1 + 1 ELSE c1
        completedPhases == IF project.actComplete THEN c2 + 1 ELSE c2
    IN MathRoundPercent(completedPhases, 3)

\* a slip that drops the completion test
M_getNextPhase(currentPhase, currentPhaseComplete) ==
    IF currentPhase = "engage" THEN Str("investigate")
    ELSE IF currentPhase = "investigate" THEN Str("act")
    ELSE JSNull

\* a slip that sends a completed engage phase to act
M_getNextPhase_Skip(currentPhase, currentPhaseComplete) ==
    IF ~currentPhaseComplete THEN JSNull
    ELSE IF currentPhase = "engage" THEN Str("act")
    ELSE IF currentPhase = "investigate" THEN Str("act")
    ELSE JSNull

getNextPhase(currentPhase, currentPhaseComplete) ==
    IF ~currentPhaseComplete THEN JSNull
    ELSE IF currentPhase = "engage" THEN Str("investigate")
    ELSE IF currentPhase = "investigate" THEN Str("act")
    ELSE JSNull

isProjectComplete(project) ==
    project.engageComplete /\ project.investigateComplete /\ project.actComplete

CallCalculateProjectProgress ==
    /\ op = "none"
    /\ \E project \in ProjectProgress :
        /\ op' = "calculateProjectProgress"
        /\ args' = [project |-> project]
        /\ ret' = Num(calculateProjectProgress(project))

CallGetNextPhase ==
    /\ op = "none"
    /\ \E currentPhase \in ProjectPhase, currentPhaseComplete \in BOOLEAN :
        /\ op' = "getNextPhase"
        /\ args' = [currentPhase |-> currentPhase,
                    currentPhaseComplete |-> currentPhaseComplete]
        /\ ret' = getNextPhase(currentPhase, currentPhaseComplete)

CallIsProjectComplete ==
    /\ op = "none"
    /\ \E project \in ProjectProgress :
        /\ op' = "isProjectComplete"
        /\ args' = [project |-> project]
        /\ ret' = Bool(isProjectComplete(project))

CallCountCompletedPhases ==
    /\ op = "none"
    /\ \E project \in ProjectProgress :
        /\ op' = "countCompletedPhases"
        /\ args' = [project |-> project]
        /\ ret' = Num(countCompletedPhases(project))

\* the completion flag of the phase the project is in
CurrentPhaseComplete(project) ==
    CASE project.phase = "engage" -> project.engageComplete
      [] project.phase = "investigate" -> project.investigateComplete
      [] project.phase = "act" -> project.actComplete

\* A caller walks a project through its phases: it calls getNextPhase with
\* the project's phase and that phase's flag, and moves the project to the
\* phase returned unless that is null.  start is the project the walk began
\* with, from and passed are the arguments of the last call.
WalkStart ==
    /\ op = "none"
    /\ \E project \in ProjectProgress :
        /\ op' = "walk"
        /\ args' = [project |-> project, start |-> project, calls |-> 0,
                    from |-> project.phase, passed |-> FALSE]
        /\ ret' = JSUndefined

WalkAdvance ==
    /\ op = "walk"
    /\ args.calls < MaxCalls
    /\ LET project == args.project
           complete == CurrentPhaseComplete(project)
           next == getNextPhase(project.phase, complete)
       IN  /\ args' = [args EXCEPT
                         !.project = IF next.kind = "null" THEN project
                                     ELSE [project EXCEPT !.phase = next.val],
                         !.calls = @ + 1,
                         !.from = project.phase,
                         !.passed = complete]
           /\ ret' = next
    /\ UNCHANGED op

\* the work of the project's phase gets done between two calls
WalkCompletePhase ==
    /\ op = "walk"
    /\ ~CurrentPhaseComplete(args.project)
    /\ args' = [args EXCEPT
                  !.project = CASE @.phase = "engage" -> [@ EXCEPT !.engageComplete = TRUE]
                                [] @.phase = "investigate" ->
                                       [@ EXCEPT !.investigateComplete = TRUE]
                                [] @.phase = "act" -> [@ EXCEPT !.actComplete = TRUE]]
    /\ UNCHANGED <<op, ret>>

(***************************************************************************)
(* Nudge lookup.                                                           *)
(***************************************************************************)
NudgeCategory ==
    {"big_idea", "essential_question", "challenge", "guiding_questions",
     "resources", "solution", "implementation"}

CBLPhase == {"engage", "investigate", "act"}

\* the hint strings of the table, written without their diacritics
NUDGES_DATABASE ==
    [big_idea |->
        <<"Pense em um tema amplo que conecta diferentes areas do conhecimento",
          "Qual conceito fundamental voce quer explorar?",
          "Considere questoes relevantes para sua comunidade">>,
     essential_question |->
        <<"Formule uma pergunta aberta que nao tem resposta unica",
          "A pergunta deve provocar pensamento critico",
          "Evite perguntas que possam ser respondidas com sim ou nao">>,
     challenge |->
        <<"Descreva uma acao concreta que os alunos devem realizar",
          "O desafio deve ser especifico e mensuravel",
          "Conecte o desafio com situacoes reais">>,
     guiding_questions |->
        <<"Decomponha o problema em perguntas menores",
          "Cada pergunta deve levar a uma investigacao especifica",
          "Garanta que as perguntas sejam pesquisaveis">>,
     resources |->
        <<"Busque fontes academicas e confiaveis",
          "Diversifique os tipos de recursos (artigos, videos, livros)",
          "Avalie criticamente a credibilidade de cada fonte">>,
     solution |->
        <<"Descreva uma solucao viavel e criativa",
          "Considere recursos disponiveis e restricoes",
          "Pense em como a solucao impacta os stakeholders">>,
     implementation |->
        <<"Divida a implementacao em etapas claras",
          "Defina responsaveis e prazos realistas",
          "Considere riscos e planos de contingencia">>]

\* NUDGES_DATABASE and phaseCategories are object literals: a key that is not
\* an own property is looked up on Object.prototype.  constructor is the
\* function Object (length 1), toString and valueOf are functions of length 0,
\* hasOwnProperty is a function of length 1, __proto__ is Object.prototype
\* itself (an object without a length).
ObjectPrototypeKeys ==
    {"constructor", "toString", "valueOf", "hasOwnProperty", "__proto__"}

ObjectPrototypeGet(key) ==
    CASE key \in {"constructor", "hasOwnProperty"} -> Fun(1)
      [] key \in {"toString", "valueOf"} -> Fun(0)
      [] key = "__proto__" -> Obj
      [] OTHER -> JSUndefined

\* table[key] of JavaScript, table being an object literal of arrays
ObjectGet(table, key) ==
    IF key \in DOMAIN table THEN Arr(table[key]) ELSE ObjectPrototypeGet(key)

\* v.length
LengthOf(v) ==
    CASE v.kind = "array" -> Num(Len(v.val))
      [] v.kind = "function" -> Num(v.val)
      [] OTHER -> JSUndefined

\* Math.floor(Math.random() * length), Math.random() being random / RandomResolution;
\* NaN when length is not a number
RandomIndex(random, length) ==
    IF length.kind = "number"
    THEN Num((random * length.val) \div RandomResolution)
    ELSE [kind |-> "NaN", val |-> 0]

\* v[index]
ElementAt(v, index) ==
    IF v.kind = "array" /\ index.kind = "number" /\ index.val \in 0..(Len(v.val) - 1)
    THEN Str(v.val[index.val + 1])
    ELSE JSUndefined

getRandomNudge(category, random) ==
    LET nudges == ObjectGet(NUDGES_DATABASE, category)
        length == LengthOf(nudges)
    IN  IF nudges.kind = "undefined" \/ (length.kind = "number" /\ length.val = 0)
        THEN JSNull
        ELSE LET randomIndex == RandomIndex(random, length) IN
             ElementAt(nudges, randomIndex)

getNudgesForCategory(category) ==
    LET nudges == ObjectGet(NUDGES_DATABASE, category) IN
    IF nudges.kind = "undefined" THEN Arr(<<>>) ELSE nudges

countNudgesForCategory(category) ==
    LET nudges == ObjectGet(NUDGES_DATABASE, category)
        length == IF nudges.kind = "undefined" THEN JSUndefined ELSE LengthOf(nudges)
    IN  IF length.kind = "number" /\ length.val # 0 THEN length ELSE Num(0)

phaseCategories_isCategoryValidForPhase ==
    [engage |-> <<"big_idea", "essential_question", "challenge">>,
     investigate |-> <<"guiding_questions", "resources">>,
     act |-> <<"solution", "implementation">>]

phaseCategories_getAvailableCategories ==
    [engage |-> <<"big_idea", "essential_question", "challenge">>,
     investigate |-> <<"guiding_questions", "resources">>,
     act |-> <<"solution", "implementation">>]

\* array.includes(x)
Includes(array, x) == \E i \in 1..Len(array) : array[i] = x

\* a slip that looks only at the first category of the phase
M_isCategoryValidForPhase(phase, category) ==
    LET categories == ObjectGet(phaseCategories_isCategoryValidForPhase, phase) IN
    IF categories.kind = "array"
    THEN Bool(categories.val[1] = category)
    ELSE Throw("TypeError")

\* phaseCategories[phase].includes(category): includes is a method of arrays
\* only, so the call throws a TypeError on anything else
isCategoryValidForPhase(phase, category) ==
    LET categories == ObjectGet(phaseCategories_isCategoryValidForPhase, phase) IN
    IF categories.kind = "array"
    THEN Bool(Includes(categories.val, category))
    ELSE Throw("TypeError")

getAvailableCategories(phase) ==
    ObjectGet(phaseCategories_getAvailableCategories, phase)

\* categories and phases outside the tables, as a caller's cast can pass them
UnknownKeys == {"invalid_category", "invalid"} \cup ObjectPrototypeKeys

Categories == NudgeCategory \cup UnknownKeys

Phases == CBLPhase \cup UnknownKeys

RandomOutcomes == 0..(RandomResolution - 1)

CallGetRandomNudge ==
    /\ op = "none"
    /\ \E category \in Categories, random \in RandomOutcomes :
        /\ op' = "getRandomNudge"
        /\ args' = [category |-> category, random |-> random]
        /\ ret' = getRandomNudge(category, random)

CallGetNudgesForCategory ==
    /\ op = "none"
    /\ \E category \in Categories :
        /\ op' = "getNudgesForCategory"
        /\ args' = [category |-> category]
        /\ ret' = getNudgesForCategory(category)

CallCountNudgesForCategory ==
    /\ op = "none"
    /\ \E category \in Categories :
        /\ op' = "countNudgesForCategory"
        /\ args' = [category |-> category]
        /\ ret' = countNudgesForCategory(category)

CallIsCategoryValidForPhase ==
    /\ op = "none"
    /\ \E phase \in Phases, category \in Categories :
        /\ op' = "isCategoryValidForPhase"
        /\ args' = [phase |-> phase, category |-> category]
        /\ ret' = isCategoryValidForPhase(phase, category)

CallGetAvailableCategories ==
    /\ op = "none"
    /\ \E phase \in Phases :
        /\ op' = "getAvailableCategories"
        /\ args' = [phase |-> phase]
        /\ ret' = getAvailableCategories(phase)

(***************************************************************************)
(* Strings.  A string is the sequence of its characters.                   *)
(***************************************************************************)
\* the white space String.prototype.trim removes, as far as the texts of
\* the model hold it
IsWhiteSpace(c) == c \in {" ", "\t", "\n", "\r"}

RECURSIVE trimStart(_)
trimStart(s) ==
    IF s = <<>> THEN s
    ELSE IF IsWhiteSpace(Head(s)) THEN trimStart(Tail(s))
    ELSE s

RECURSIVE trimEnd(_)
trimEnd(s) ==
    IF s = <<>> THEN s
    ELSE IF IsWhiteSpace(s[Len(s)]) THEN trimEnd(SubSeq(s, 1, Len(s) - 1))
    ELSE s

\* a slip that trims nothing
M_trim(s) == s

\* s.trim()
trim(s) == trimEnd(trimStart(s))

\* s.includes(c)
StringIncludes(s, c) == \E i \in 1..Len(s) : s[i] = c

\* !v for the values a text field can hold: null, undefined and "" are falsy
IsFalsy(v) == IsNullish(v) \/ (v.kind = "string" /\ v.val = <<>>)

(***************************************************************************)
(* CBL field validators.                                                   *)
(***************************************************************************)
isValidBigIdea(bigIdea) ==
    IF IsFalsy(bigIdea) THEN FALSE
    ELSE Len(trim(bigIdea.val)) >= 10

isValidEssentialQuestion(question) ==
    IF IsFalsy(question) THEN FALSE
    ELSE LET trimmed == trim(question.val) IN
         Len(trimmed) >= 10 /\ StringIncludes(trimmed, "?")

isValidChallenge(challenge) ==
    IF IsFalsy(challenge) THEN FALSE
    ELSE Len(trim(challenge.val)) >= 15

isEngagePhaseComplete(bigIdea, essentialQuestion, challenge) ==
    /\ isValidBigIdea(bigIdea)
    /\ isValidEssentialQuestion(essentialQuestion)
    /\ isValidChallenge(challenge)

(***************************************************************************)
(* new URL(url), without a base: the WHATWG parser on the URLs of the      *)
(* model (a scheme, slashes, a host with an optional port, a path; no      *)
(* credentials, query or fragment, no file scheme, no numeric host).       *)
(***************************************************************************)
Alpha ==
    {"a", "b", "c", "d", "e", "f", "g", "h", "i", "j", "k", "l", "m", "n",
     "o", "p", "q", "r", "s", "t", "u", "v", "w", "x", "y", "z"}

Digit == {"0", "1", "2", "3", "4", "5", "6", "7", "8", "9"}

\* the schemes whose URLs need a host
SpecialSchemes ==
    {<<"h", "t", "t", "p">>, <<"h", "t", "t", "p", "s">>, <<"f", "t", "p">>,
     <<"w", "s">>, <<"w", "s", "s">>}

\* the index of the first c in s, Len(s) + 1 when there is none
IndexOf(s, c) ==
    IF StringIncludes(s, c)
    THEN CHOOSE i \in 1..Len(s) : s[i] = c /\ \A j \in 1..(i - 1) : s[j] # c
    ELSE Len(s) + 1

RECURSIVE SkipSlashes(_)
SkipSlashes(s) ==
    IF s # <<>> /\ Head(s) \in {"/", "\\"} THEN SkipSlashes(Tail(s)) ELSE s

\* host[:port] parses: no forbidden code point in the host, digits in the port
HostAndPortParse(authority, emptyHostAllowed) ==
    LET colon == IndexOf(authority, ":")
        host == SubSeq(authority, 1, colon - 1)
        port == SubSeq(authority, colon + 1, Len(authority))
    IN  /\ emptyHostAllowed \/ host # <<>>
        /\ \A i \in 1..Len(host) : host[i] \in Alpha \cup Digit \cup {".", "-"}
        /\ \A i \in 1..Len(port) : port[i] \in Digit

URLConstructorAccepts(url) ==
    LET input == trimEnd(trimStart(url))
        colon == IndexOf(input, ":")
        scheme == SubSeq(input, 1, colon - 1)
        rest == SubSeq(input, colon + 1, Len(input))
    IN  /\ colon <= Len(input)
        /\ scheme # <<>>
        /\ scheme[1] \in Alpha
        /\ \A i \in 1..Len(scheme) : scheme[i] \in Alpha \cup Digit \cup {"+", "-", "."}
        /\ IF scheme \in SpecialSchemes
           THEN LET after == SkipSlashes(rest) IN
                HostAndPortParse(SubSeq(after, 1, IndexOf(after, "/") - 1), FALSE)
           ELSE IF Len(rest) >= 2 /\ rest[1] = "/" /\ rest[2] = "/"
           THEN LET after == SubSeq(rest, 3, Len(rest)) IN
                HostAndPortParse(SubSeq(after, 1, IndexOf(after, "/") - 1), TRUE)
           ELSE TRUE

isValidURL(url) ==
    IF IsFalsy(url) \/ Len(trim(url.val)) = 0 THEN FALSE
    ELSE IF URLConstructorAccepts(url.val) THEN TRUE
    ELSE FALSE

(***************************************************************************)
(* Resource and activity validators.  A record is an object value whose    *)
(* val holds the fields, a missing field being undefined; reading a field  *)
(* of null or undefined throws a TypeError.                                *)
(***************************************************************************)
Object(fields) == [kind |-> "object", val |-> fields]

\* a slip that forgets the credibility
M_isValidResource(resource) ==
    IF IsNullish(resource) THEN Throw("TypeError")
    ELSE LET r == resource.val IN
         IF IsFalsy(r.title) \/ Len(trim(r.title.val)) < 3 THEN Bool(FALSE)
         ELSE IF IsFalsy(r.url) \/ ~isValidURL(r.url) THEN Bool(FALSE)
         ELSE IF IsFalsy(r.type) THEN Bool(FALSE)
         ELSE Bool(TRUE)

isValidResource(resource) ==
    IF IsNullish(resource) THEN Throw("TypeError")
    ELSE LET r == resource.val IN
         IF IsFalsy(r.title) \/ Len(trim(r.title.val)) < 3 THEN Bool(FALSE)
         ELSE IF IsFalsy(r.url) \/ ~isValidURL(r.url) THEN Bool(FALSE)
         ELSE IF IsFalsy(r.type) THEN Bool(FALSE)
         ELSE IF IsFalsy(r.credibility) THEN Bool(FALSE)
         ELSE Bool(TRUE)

isValidActivity(activity) ==
    IF IsNullish(activity) THEN Throw("TypeError")
    ELSE LET a == activity.val IN
         IF IsFalsy(a.title) \/ Len(trim(a.title.val)) < 3 THEN Bool(FALSE)
         ELSE IF IsFalsy(a.description) \/ Len(trim(a.description.val)) < 10 THEN Bool(FALSE)
         ELSE IF IsFalsy(a.status) THEN Bool(FALSE)
         ELSE Bool(TRUE)

(***************************************************************************)
(* The inputs of the validators.                                           *)
(***************************************************************************)
Pad(n) == [i \in 1..n |-> " "]

\* n characters fill, with a question mark first or last when mark says so
Body(n, mark, fill) ==
    [i \in 1..n |-> IF (mark = "first" /\ i = 1) \/ (mark = "last" /\ i = n)
                    THEN "?" ELSE fill]

Marks == {"none", "first", "last"}

Fills == {"a", " "}

NullAndUndefined == {JSNull, JSUndefined}

Texts ==
    {Str(Pad(a) \o Body(n, mark, fill) \o Pad(b)) :
        a \in 0..MaxPad, b \in 0..MaxPad, n \in 0..MaxBody,
        mark \in Marks, fill \in Fills}
    \cup NullAndUndefined

\* the texts around the three minimum lengths, for the three fields together
EngageTexts ==
    {Str(Pad(a) \o Body(n, mark, fill)) :
        a \in {0, MaxPad}, n \in {0, 9, 10, 14, 15},
        mark \in {"none", "last"}, fill \in Fills}
    \cup NullAndUndefined

Titles ==
    {Str(Pad(a) \o Body(n, "none", "a") \o Pad(b)) :
        a \in {0, MaxPad}, b \in {0, MaxPad}, n \in 0..MaxTitle}
    \cup {JSUndefined}

Descriptions ==
    {Str(Pad(a) \o Body(n, "none", "a")) : a \in {0, MaxPad}, n \in {0, 9, 10}}
    \cup {JSUndefined}

URLSchemes ==
    {<<>>, <<"h", "t", "t", "p">>, <<"h", "t", "t", "p", "s">>,
     <<"m", "a", "i", "l", "t", "o">>, <<"1", "x">>}

URLHosts ==
    {<<>>, <<"a", ".", "b">>, <<"a", " ", "b">>, <<"a", ":", "8">>, <<"a", ":", "x">>}

Slashes(k) == [i \in 1..k |-> "/"]

URLTexts(pads, paths) ==
    {Str(Pad(a) \o scheme \o colon \o Slashes(k) \o host \o path \o Pad(b)) :
        a \in pads, b \in pads, scheme \in URLSchemes, colon \in {<<>>, <<":">>},
        k \in 0..2, host \in URLHosts, path \in paths}

URLs == URLTexts(0..MaxPad, {<<>>, <<"/", "p">>}) \cup NullAndUndefined

ResourceURLs == URLTexts({0}, {<<>>}) \cup {JSUndefined}

ResourceTypes ==
    {Str(<<"a", "r", "t", "i", "c", "l", "e">>), Str(<<"v", "i", "d", "e", "o">>),
     JSUndefined}

Credibilities ==
    {Str(<<"h", "i", "g", "h">>), Str(<<"l", "o", "w">>), JSUndefined}

ActivityStatuses ==
    {Str(<<"c", "o", "m", "p", "l", "e", "t", "e", "d">>),
     Str(<<"n", "o", "t", "_", "s", "t", "a", "r", "t", "e", "d">>), JSUndefined}

Resources ==
    {Object(r) : r \in [title : Titles, url : ResourceURLs,
                        type : ResourceTypes, credibility : Credibilities]}
    \cup NullAndUndefined

Activities ==
    {Object(a) : a \in [title : Titles, description : Descriptions,
                        status : ActivityStatuses]}
    \cup NullAndUndefined

(***************************************************************************)
(* Activity statistics.                                                    *)
(***************************************************************************)
StatusCompleted == Str(<<"c", "o", "m", "p", "l", "e", "t", "e", "d">>)

StatusInProgress == Str(<<"i", "n", "_", "p", "r", "o", "g", "r", "e", "s", "s">>)

StatusNotStarted == Str(<<"n", "o", "t", "_", "s", "t", "a", "r", "t", "e", "d">>)

ActivityStatus == {StatusNotStarted, StatusInProgress, StatusCompleted}

\* activities.filter(a => a.status === status).length
countActivitiesByStatus(activities, status) ==
    Len(SelectSeq(activities, LAMBDA a : a.val.status = status))

\* a slip that cuts the percentage off instead of rounding it
M_calculateCompletionRate(activities) ==
    IF Len(activities) = 0 THEN 0
    ELSE LET completed == countActivitiesByStatus(activities, StatusCompleted) IN
         (100 * completed) \div Len(activities)

calculateCompletionRate(activities) ==
    IF Len(activities) = 0 THEN 0
    ELSE LET completed == countActivitiesByStatus(activities, StatusCompleted) IN
         MathRoundPercent(completed, Len(activities))

\* an activity of a list: only its status is read
ActivityOf(status) ==
    Object([title |-> Str(<<"A">>), description |-> Str(<<"D">>), status |-> status])

Run(k, status) == [i \in 1..k |-> ActivityOf(status)]

SmallActivityLists ==
    UNION {[1..n -> {ActivityOf(status) : status \in ActivityStatus}] :
              n \in 0..MaxSmallList}

LongActivityLists ==
    UNION {{Run(n - m, StatusCompleted) \o Run(m, status),
            Run(m, status) \o Run(n - m, StatusCompleted)} :
              n \in (MaxActivities - 2)..MaxActivities, m \in 0..MaxOpen,
              status \in {StatusInProgress, StatusNotStarted}}

ActivityLists == SmallActivityLists \cup LongActivityLists

CallCountActivitiesByStatus ==
    /\ op = "none"
    /\ \E activities \in ActivityLists, status \in ActivityStatus :
        /\ op' = "countActivitiesByStatus"
        /\ args' = [activities |-> activities, status |-> status]
        /\ ret' = Num(countActivitiesByStatus(activities, status))

CallCalculateCompletionRate ==
    /\ op = "none"
    /\ \E activities \in ActivityLists :
        /\ op' = "calculateCompletionRate"
        /\ args' = [activities |-> activities]
        /\ ret' = Num(calculateCompletionRate(activities))

CallIsValidBigIdea ==
    /\ op = "none"
    /\ \E bigIdea \in Texts :
        /\ op' = "isValidBigIdea"
        /\ args' = [bigIdea |-> bigIdea]
        /\ ret' = Bool(isValidBigIdea(bigIdea))

CallIsValidEssentialQuestion ==
    /\ op = "none"
    /\ \E question \in Texts :
        /\ op' = "isValidEssentialQuestion"
        /\ args' = [question |-> question]
        /\ ret' = Bool(isValidEssentialQuestion(question))

CallIsValidChallenge ==
    /\ op = "none"
    /\ \E challenge \in Texts :
        /\ op' = "isValidChallenge"
        /\ args' = [challenge |-> challenge]
        /\ ret' = Bool(isValidChallenge(challenge))

CallIsEngagePhaseComplete ==
    /\ op = "none"
    /\ \E bigIdea \in EngageTexts, essentialQuestion \in EngageTexts,
           challenge \in EngageTexts :
        /\ op' = "isEngagePhaseComplete"
        /\ args' = [bigIdea |-> bigIdea, essentialQuestion |-> essentialQuestion,
                    challenge |-> challenge]
        /\ ret' = Bool(isEngagePhaseComplete(bigIdea, essentialQuestion, challenge))

CallIsValidURL ==
    /\ op = "none"
    /\ \E url \in URLs :
        /\ op' = "isValidURL"
        /\ args' = [url |-> url]
        /\ ret' = Bool(isValidURL(url))

CallIsValidResource ==
    /\ op = "none"
    /\ \E resource \in Resources :
        /\ op' = "isValidResource"
        /\ args' = [resource |-> resource]
        /\ ret' = isValidResource(resource)

CallIsValidActivity ==
    /\ op = "none"
    /\ \E activity \in Activities :
        /\ op' = "isValidActivity"
        /\ args' = [activity |-> activity]
        /\ ret' = isValidActivity(activity)

(***************************************************************************)
(* Specification: nothing has been called yet; then any call, in any order.*)
(***************************************************************************)
Idle ==
    /\ op = "none"
    /\ args = [none |-> 0]
    /\ ret = JSUndefined

Init == Idle

\* the values of a call are transient: passed in, returned and discarded
Discard ==
    /\ op # "none"
    /\ op' = "none"
    /\ args' = [none |-> 0]
    /\ ret' = JSUndefined

Next ==
    \/ CallCalculateUserLevel
    \/ CallXpToNextLevel
    \/ CallLevelProgressPercentage
    \/ CallCalculateProjectProgress
    \/ CallGetNextPhase
    \/ CallIsProjectComplete
    \/ CallCountCompletedPhases
    \/ CallGetRandomNudge
    \/ CallGetNudgesForCategory
    \/ CallCountNudgesForCategory
    \/ CallIsCategoryValidForPhase
    \/ CallGetAvailableCategories
    \/ Discard

Spec == Init /\ [][Next]_vars

\* the validators, checked apart from the arithmetic and the lookups
NextValidators ==
    \/ CallIsValidBigIdea
    \/ CallIsValidEssentialQuestion
    \/ CallIsValidChallenge
    \/ CallIsEngagePhaseComplete
    \/ CallIsValidURL
    \/ CallIsValidResource
    \/ CallIsValidActivity
    \/ CallCountActivitiesByStatus
    \/ CallCalculateCompletionRate
    \/ Discard

SpecValidators == Init /\ [][NextValidators]_vars

\* the walks of projects through their phases
NextWalk ==
    \/ WalkStart
    \/ WalkAdvance
    \/ WalkCompletePhase
    \/ Discard

SpecWalk == Init /\ [][NextWalk]_vars

(***************************************************************************)
(* Properties.                                                             *)
(***************************************************************************)

\* C1: calculateUserLevel(totalXP) is the largest level i in 1..5 whose
\* threshold [0, 100, 250, 500, 1000][i] is reached (totalXP >= threshold),
\* it is 1 when no threshold is reached, which is the case exactly for
\* totalXP < 0, and so it is never below 1 or above 5.
C1_LevelIsHighestReachedThreshold ==
    op = "calculateUserLevel" =>
        LET totalXP == args.totalXP
            threshold == <<0, 100, 250, 500, 1000>>
            reached == {i \in 1..5 : totalXP >= threshold[i]}
        IN  /\ ret.kind = "number"
            /\ ret.val \in 1..5
            /\ (reached = {}) <=> (totalXP < 0)
            /\ IF reached = {}
               THEN ret.val = 1
               ELSE ret.val \in reached /\ \A j \in reached : j <= ret.val

C1_Witness ==
    /\ op = "calculateUserLevel"
    /\ args.totalXP = 250
    /\ ret.val = 3

\* C2: xpToNextLevel(totalXP) is 0 when the level of totalXP is 5, and
\* otherwise the XP floor of the level directly above the current one
\* (100, 250, 500 or 1000) minus totalXP.
C2_XpToNextLevelIsGapToNextFloor ==
    op = "xpToNextLevel" =>
        LET totalXP == args.totalXP
            level == calculateUserLevel(totalXP)
            floorAbove == <<100, 250, 500, 1000>>
        IN  /\ ret.kind = "number"
            /\ IF level = 5
               THEN ret.val = 0
               ELSE ret.val = floorAbove[level] - totalXP

C2_Witness ==
    /\ op = "xpToNextLevel"
    /\ args.totalXP = 100
    /\ ret.val = 150

\* C3: levelProgressPercentage(totalXP) is 100 at level 5; below level 5 it
\* is the integer r nearest to (totalXP - floor) / (nextFloor - floor) * 100,
\* a half going up: r - 1/2 <= the quotient < r + 1/2.  At the floor of
\* level 1, 2, 3 or 4 (0, 100, 250, 500) it is 0.
C3_ProgressIsRoundedShareOfLevel ==
    op = "levelProgressPercentage" =>
        LET totalXP == args.totalXP
            level == calculateUserLevel(totalXP)
            floors == <<0, 100, 250, 500, 1000>>
        IN  /\ ret.kind = "number"
            /\ level = 5 => ret.val = 100
            /\ level < 5 =>
                 LET num == totalXP - floors[level]
                     den == floors[level + 1] - floors[level]
                 IN  /\ (2 * ret.val - 1) * den <= 200 * num
                     /\ 200 * num < (2 * ret.val + 1) * den
            /\ totalXP \in {0, 100, 250, 500} => ret.val = 0

C3_Witness ==
    /\ op = "levelProgressPercentage"
    /\ args.totalXP = 101
    /\ ret.val = 1

\* C4: calculateProjectProgress returns 0, 33, 67 or 100 as exactly 0, 1, 2
\* or 3 of engageComplete, investigateComplete, actComplete are true,
\* whichever flags they are and whatever the phase field holds.
C4_ProgressDependsOnFlagCount ==
    op = "calculateProjectProgress" =>
        LET project == args.project
            trueFlags == {f \in {"engageComplete", "investigateComplete", "actComplete"} :
                            project[f]}
        IN  /\ ret.kind = "number"
            /\ ret.val = <<0, 33, 67, 100>>[Cardinality(trueFlags) + 1]

C4_Witness ==
    /\ op = "calculateProjectProgress"
    /\ args.project = [phase |-> "engage", engageComplete |-> FALSE,
                       investigateComplete |-> TRUE, actComplete |-> FALSE]
    /\ ret.val = 33

\* C5: getNextPhase returns null for every phase when currentPhaseComplete
\* is false; when it is true it returns investigate for engage, act for
\* investigate and null for act.
C5_NextPhaseTable ==
    op = "getNextPhase" =>
        IF ~args.currentPhaseComplete THEN ret.kind = "null"
        ELSE CASE args.currentPhase = "engage" ->
                    ret.kind = "string" /\ ret.val = "investigate"
               [] args.currentPhase = "investigate" ->
                    ret.kind = "string" /\ ret.val = "act"
               [] args.currentPhase = "act" -> ret.kind = "null"

C5_Witness ==
    /\ op = "getNextPhase"
    /\ args.currentPhase = "engage"
    /\ args.currentPhaseComplete
    /\ ret.kind = "string"
    /\ ret.val = "investigate"

\* C6: every validator returns false, and does not throw, when its input is
\* null or undefined: a text, a URL, one of the three texts of the engage
\* phase, and the resource or activity record itself.
C6_NullishInputIsInvalid ==
    LET returnsFalse == ret.kind = "boolean" /\ ret.val = FALSE IN
    /\ (op = "isValidBigIdea" /\ IsNullish(args.bigIdea)) => returnsFalse
    /\ (op = "isValidEssentialQuestion" /\ IsNullish(args.question)) => returnsFalse
    /\ (op = "isValidChallenge" /\ IsNullish(args.challenge)) => returnsFalse
    /\ (op = "isEngagePhaseComplete"
          /\ (IsNullish(args.bigIdea) \/ IsNullish(args.essentialQuestion)
                \/ IsNullish(args.challenge))) => returnsFalse
    /\ (op = "isValidURL" /\ IsNullish(args.url)) => returnsFalse
    /\ (op = "isValidResource" /\ IsNullish(args.resource)) => returnsFalse
    /\ (op = "isValidActivity" /\ IsNullish(args.activity)) => returnsFalse

\* C7: isEngagePhaseComplete(bigIdea, question, challenge) is true iff the
\* big idea has trimmed length >= 10, the question has trimmed length >= 10
\* and contains a '?', and the challenge has trimmed length >= 15, null and
\* undefined having no length.  The trimmed length of a text is the distance
\* from its first to its last character that is not white space, 0 for a
\* text of white space only.
C7_EngageCompleteIffThreeFieldsValid ==
    op = "isEngagePhaseComplete" =>
        LET TrimmedLength(v) ==
                IF v.kind # "string" THEN 0
                ELSE LET inked == {i \in 1..Len(v.val) : v.val[i] # " "} IN
                     IF inked = {} THEN 0
                     ELSE (CHOOSE i \in inked : \A j \in inked : j <= i)
                          - (CHOOSE i \in inked : \A j \in inked : i <= j) + 1
            HasQuestionMark(v) ==
                v.kind = "string" /\ \E i \in 1..Len(v.val) : v.val[i] = "?"
        IN  /\ ret.kind = "boolean"
            /\ ret.val <=> /\ TrimmedLength(args.bigIdea) >= 10
                           /\ TrimmedLength(args.essentialQuestion) >= 10
                           /\ HasQuestionMark(args.essentialQuestion)
                           /\ TrimmedLength(args.challenge) >= 15

C7_Witness ==
    /\ op = "isEngagePhaseComplete"
    /\ args.bigIdea.kind = "string"
    /\ Len(args.bigIdea.val) = 11
    /\ args.bigIdea.val[1] = " "
    /\ ret.val

\* C8: for a resource record, isValidResource is true iff the title has
\* trimmed length >= 3, the url passes isValidURL, the type is present and
\* the credibility is present; a record missing one of the four is invalid.
C8_ResourceValidIffFourFields ==
    (op = "isValidResource" /\ args.resource.kind = "object") =>
        LET r == args.resource.val
            inked == IF r.title.kind = "string"
                     THEN {i \in 1..Len(r.title.val) : r.title.val[i] # " "}
                     ELSE {}
            titleLength ==
                IF inked = {} THEN 0
                ELSE (CHOOSE i \in inked : \A j \in inked : j <= i)
                     - (CHOOSE i \in inked : \A j \in inked : i <= j) + 1
        IN  /\ ret.kind = "boolean"
            /\ ret.val <=> /\ titleLength >= 3
                           /\ isValidURL(r.url)
                           /\ r.type.kind # "undefined"
                           /\ r.credibility.kind # "undefined"
            /\ (\E f \in {"title", "url", "type", "credibility"} :
                    r[f].kind = "undefined") => ~ret.val

C8_Witness ==
    /\ op = "isValidResource"
    /\ args.resource.kind = "object"
    /\ args.resource.val.title = Str(<<"a", "a", "a">>)
    /\ args.resource.val.url = Str(<<"h", "t", "t", "p", "s", ":", "/", "/", "a", ".", "b">>)
    /\ args.resource.val.type.kind = "string"
    /\ args.resource.val.credibility.kind = "undefined"
    /\ ret.kind = "boolean"
    /\ ~ret.val

\* C9: for every phase of engage, investigate, act and each of the seven
\* categories, isCategoryValidForPhase(phase, category) is true iff the
\* category occurs in getAvailableCategories(phase), and
\* getAvailableCategories returns exactly, in this order,
\* [big_idea, essential_question, challenge] for engage,
\* [guiding_questions, resources] for investigate and
\* [solution, implementation] for act.
C9_ValidIffAvailable ==
    LET expected == [engage |-> <<"big_idea", "essential_question", "challenge">>,
                     investigate |-> <<"guiding_questions", "resources">>,
                     act |-> <<"solution", "implementation">>]
    IN  /\ (op = "isCategoryValidForPhase"
              /\ args.phase \in {"engage", "investigate", "act"}
              /\ args.category \in NudgeCategory) =>
                LET available == getAvailableCategories(args.phase) IN
                /\ ret.kind = "boolean"
                /\ available.kind = "array"
                /\ available.val = expected[args.phase]
                /\ ret.val <=> (\E i \in 1..Len(available.val) :
                                    available.val[i] = args.category)
        /\ (op = "getAvailableCategories"
              /\ args.phase \in {"engage", "investigate", "act"}) =>
                /\ ret.kind = "array"
                /\ ret.val = expected[args.phase]

C9_Witness ==
    /\ op = "isCategoryValidForPhase"
    /\ args.phase = "investigate"
    /\ args.category = "resources"
    /\ ret.kind = "boolean"
    /\ ret.val

\* C10: for a known category and every outcome of the random choice,
\* getRandomNudge returns a string that is an element of the category's list,
\* every element of the list can be returned, and for an unknown category
\* the function returns null.
C10_RandomNudgeFromListOrNull ==
    /\ op = "getRandomNudge" =>
         IF args.category \in NudgeCategory
         THEN /\ ret.kind = "string"
              /\ \E i \in 1..Len(NUDGES_DATABASE[args.category]) :
                    NUDGES_DATABASE[args.category][i] = ret.val
         ELSE ret.kind = "null"
    /\ \A category \in NudgeCategory :
         \A i \in 1..Len(NUDGES_DATABASE[category]) :
            \E random \in RandomOutcomes :
                getRandomNudge(category, random) = Str(NUDGES_DATABASE[category][i])

\* C11: calculateUserLevel is monotonic non-decreasing: for all a <= b,
\* calculateUserLevel(a) <= calculateUserLevel(b).  a is the argument of the
\* call and b every XP value at or above it.
C11_LevelIsMonotonic ==
    op = "calculateUserLevel" =>
        /\ ret.kind = "number"
        /\ \A b \in XPs :
              args.totalXP <= b => ret.val <= calculateUserLevel(b)

C11_Witness ==
    /\ op = "calculateUserLevel"
    /\ args.totalXP = 499
    /\ ret.val = 3
    /\ calculateUserLevel(500) = 4

\* C12: no nudge-lookup function throws for a category or a phase outside
\* its table: getRandomNudge returns null, getNudgesForCategory the empty
\* list, countNudgesForCategory 0, isCategoryValidForPhase false, and
\* getAvailableCategories null or the empty list.
C12_UnknownKeyDegrades ==
    /\ (op = "getRandomNudge" /\ args.category \notin NudgeCategory) =>
            ret.kind = "null"
    /\ (op = "getNudgesForCategory" /\ args.category \notin NudgeCategory) =>
            ret.kind = "array" /\ ret.val = <<>>
    /\ (op = "countNudgesForCategory" /\ args.category \notin NudgeCategory) =>
            ret.kind = "number" /\ ret.val = 0
    /\ (op = "isCategoryValidForPhase"
          /\ (args.phase \notin CBLPhase \/ args.category \notin NudgeCategory)) =>
            ret.kind = "boolean" /\ ret.val = FALSE
    /\ (op = "getAvailableCategories" /\ args.phase \notin CBLPhase) =>
            \/ ret.kind = "null"
            \/ ret.kind = "array" /\ ret.val = <<>>

C14_WalkIsForwardOneStep ==
    (op = "walk" /\ args.calls > 0) =>
        LET rank == [engage |-> 1, investigate |-> 2, act |-> 3]
            start == args.start
        IN  /\ ret.kind \in {"null", "string"}
            /\ ret.kind = "string" =>
                  /\ ret.val \in {"engage", "investigate", "act"}
                  /\ rank[ret.val] = rank[args.from] + 1
                  /\ args.project.phase = ret.val
                  /\ args.passed
            /\ ret.kind = "null" => args.project.phase = args.from
            /\ ~args.passed => ret.kind = "null" /\ args.project.phase = args.from
            /\ rank[args.project.phase] >= rank[start.phase]
            /\ (/\ start.engageComplete /\ start.investigateComplete
                /\ start.actComplete
                /\ args.calls >= 4 - rank[start.phase]) =>
                  ret.kind = "null" /\ args.project.phase = "act"

C14_Witness ==
    /\ op = "walk"
    /\ args.start = [phase |-> "engage", engageComplete |-> TRUE,
                     investigateComplete |-> TRUE, actComplete |-> TRUE]
    /\ args.calls = 3
    /\ args.from = "act"
    /\ args.project.phase = "act"
    /\ ret.kind = "null"

\* C15: xpToNextLevel(totalXP) is never negative and is 0 exactly when the
\* level of totalXP is 5; below level 5, adding the amount returned reaches
\* exactly the next level, and adding one XP less leaves the level as it is.
C15_XpToNextLevelReachesNextLevel ==
    op = "xpToNextLevel" =>
        LET totalXP == args.totalXP
            level == calculateUserLevel(totalXP)
        IN  /\ ret.kind = "number"
            /\ ret.val >= 0
            /\ (ret.val = 0) <=> (level = 5)
            /\ level < 5 =>
                  /\ calculateUserLevel(totalXP + ret.val) = level + 1
                  /\ calculateUserLevel(totalXP + ret.val - 1) = level

C15_Witness ==
    /\ op = "xpToNextLevel"
    /\ args.totalXP = 620
    /\ ret.val = 380
    /\ calculateUserLevel(620) = 4
    /\ calculateUserLevel(1000) = 5
    /\ calculateUserLevel(999) = 4

\* C16: for totalXP >= 0, levelProgressPercentage(totalXP) is an integer in
\* 0..100, and it is non-decreasing within a level: an XP value at or above
\* totalXP with the same level has at least the same percentage.
C16_ProgressInRangeAndMonotonicInLevel ==
    (op = "levelProgressPercentage" /\ args.totalXP >= 0) =>
        /\ ret.kind = "number"
        /\ ret.val \in 0..100
        /\ \A other \in XPs :
              (/\ args.totalXP <= other
               /\ calculateUserLevel(other) = calculateUserLevel(args.totalXP)) =>
                  ret.val <= levelProgressPercentage(other)

C16_Witness ==
    /\ op = "levelProgressPercentage"
    /\ args.totalXP = 998
    /\ ret.val = 100
    /\ levelProgressPercentage(999) = 100
    /\ calculateUserLevel(999) = calculateUserLevel(998)

====
